---- MODULE Spec2Model ----
(***************************************************************************)
(* Model of app.py: a Flask + SQLAlchemy (SQLite) CRUD service over two    *)
(* tables, Event and Player.  Every request handler is one action; the     *)
(* tables are the persisted state, and the last request together with its  *)
(* response is kept so that properties can speak about what was answered.  *)
(*                                                                         *)
(* Python values are tagged records [t |-> type, v |-> value]; a Python    *)
(* str is the sequence of its characters, so that truthiness, parsing and  *)
(* lookups are computed from the characters as the code computes them.     *)
(***************************************************************************)
EXTENDS Integers, Sequences, FiniteSets, TLC

VARIABLES event_table, player_table, request, response

vars == <<event_table, player_table, request, response>>

\* ------------------------------------------------------------------------
\* Bounds of the model: the largest row id each table hands out
\* ------------------------------------------------------------------------
MaxEvents == 2

MaxPlayers == 1

\* ------------------------------------------------------------------------
\* Python values
\* ------------------------------------------------------------------------
None == [t |-> "NoneType"]

Missing == [t |-> "missing"]

PyStr(s) == [t |-> "str", v |-> s]

PyInt(n) == [t |-> "int", v |-> n]

PyBool(b) == [t |-> "bool", v |-> b]

Raise(e) == [t |-> "raise", v |-> e]

IsRaise(x) == x.t = "raise"

\* truth value of `x` in `... if x else ...`, for the str-or-None values
\* that request.form.get returns
Truthy(x) == x.t = "str" /\ Len(x.v) > 0

\* request.form.get(key, default)
FormGet(form, key, default) == IF form[key] = Missing THEN default ELSE form[key]

\* ------------------------------------------------------------------------
\* datetime.strptime(s, '%Y-%m-%dT%H:%M:%S')
\* ------------------------------------------------------------------------
Digits == {"0", "1", "2", "3", "4", "5", "6", "7", "8", "9"}

DigitVal ==
  "0" :> 0 @@ "1" :> 1 @@ "2" :> 2 @@ "3" :> 3 @@ "4" :> 4 @@
  "5" :> 5 @@ "6" :> 6 @@ "7" :> 7 @@ "8" :> 8 @@ "9" :> 9

RECURSIVE DigitRun(_, _)
\* number of consecutive digit characters of s starting at position i
DigitRun(s, i) ==
  IF i <= Len(s) /\ s[i] \in Digits THEN 1 + DigitRun(s, i + 1) ELSE 0

RECURSIVE NumAt(_, _, _)
\* decimal value of the n digits of s that end at position i + n - 1
NumAt(s, i, n) ==
  IF n = 0 THEN 0 ELSE NumAt(s, i, n - 1) * 10 + DigitVal[s[i + n - 1]]

\* a numeric directive at position i: the digit run there, its value, and the
\* position after it
Field(s, i) ==
  LET n == DigitRun(s, i) IN [n |-> n, v |-> NumAt(s, i, n), nx |-> i + n]

\* a literal character of the format at position i; the compiled pattern is
\* case-insensitive
Lit(s, i, cs) == i <= Len(s) /\ s[i] \in cs

IsLeap(y) == (y % 4 = 0) /\ ((y % 100 # 0) \/ (y % 400 = 0))

DaysInMonth(y, m) ==
  IF m = 2 THEN (IF IsLeap(y) THEN 29 ELSE 28)
  ELSE IF m \in {4, 6, 9, 11} THEN 30 ELSE 31

strptime(x) ==
  IF x.t # "str" THEN Raise("TypeError")
  ELSE
    LET s  == x.v
        Y  == Field(s, 1)
        mo == Field(s, Y.nx + 1)
        \* %d also takes a single digit written after a space
        sp == IF Lit(s, mo.nx + 1, {" "}) THEN 1 ELSE 0
        d  == Field(s, mo.nx + 1 + sp)
        H  == Field(s, d.nx + 1)
        M  == Field(s, H.nx + 1)
        S  == Field(s, M.nx + 1)
        matches ==
          /\ Y.n = 4
          /\ Lit(s, Y.nx, {"-"})
          /\ mo.n \in {1, 2} /\ mo.v \in 1..12
          /\ Lit(s, mo.nx, {"-"})
          /\ d.n \in {1, 2 - sp} /\ d.v \in 1..31
          /\ Lit(s, d.nx, {"T", "t"})
          /\ H.n \in {1, 2} /\ H.v \in 0..23
          /\ Lit(s, H.nx, {":"})
          /\ M.n \in {1, 2} /\ M.v \in 0..59
          /\ Lit(s, M.nx, {":"})
          /\ S.n \in {1, 2} /\ S.v \in 0..61
          /\ S.nx = Len(s) + 1
        constructs ==
          /\ Y.v \in 1..9999
          /\ d.v <= DaysInMonth(Y.v, mo.v)
          /\ S.v <= 59
    IN IF matches /\ constructs
       THEN [t |-> "datetime", v |-> <<Y.v, mo.v, d.v, H.v, M.v, S.v>>]
       ELSE Raise("ValueError")

\* ------------------------------------------------------------------------
\* jsonify: a datetime is written by Flask's JSON provider as an HTTP date,
\* "%a, %d %b %Y %H:%M:%S GMT"; every other value is written as it is
\* ------------------------------------------------------------------------
DaysBeforeYear(y) ==
  LET p == y - 1 IN p * 365 + (p \div 4) - (p \div 100) + (p \div 400)

RECURSIVE DaysBeforeMonth(_, _)
DaysBeforeMonth(y, m) ==
  IF m = 1 THEN 0 ELSE DaysBeforeMonth(y, m - 1) + DaysInMonth(y, m - 1)

\* date.toordinal()
Ordinal(y, m, d) == DaysBeforeYear(y) + DaysBeforeMonth(y, m) + d

\* date.weekday(): Monday is 0
Weekday(y, m, d) == (Ordinal(y, m, d) + 6) % 7

DayNames == <<"Mon", "Tue", "Wed", "Thu", "Fri", "Sat", "Sun">>

MonthNames ==
  <<"Jan", "Feb", "Mar", "Apr", "May", "Jun",
    "Jul", "Aug", "Sep", "Oct", "Nov", "Dec">>

http_date(dt) ==
  LET y == dt.v[1]
      m == dt.v[2]
      d == dt.v[3]
  IN [t |-> "http_date",
      v |-> <<DayNames[Weekday(y, m, d) + 1], d, MonthNames[m], y,
              dt.v[4], dt.v[5], dt.v[6], "GMT">>]

Json(x) == IF x.t = "datetime" THEN http_date(x) ELSE x

\* ------------------------------------------------------------------------
\* class Team(Enum)
\* ------------------------------------------------------------------------
CT == <<"C", "T">>

TT == <<"T", "T">>

\* member name -> member value
Team == (CT :> CT) @@ (TT :> TT)

Member(name) == [t |-> "Team", v |-> name]

\* a lookup that keeps a name it does not know instead of raising
TeamLookupUnchecked(team) ==
  IF Truthy(team)
  THEN IF team.v \in DOMAIN Team THEN Member(team.v) ELSE team
  ELSE None

\* Team[team] if team else None
TeamLookup(team) ==
  IF Truthy(team)
  THEN IF team.v \in DOMAIN Team THEN Member(team.v) ELSE Raise("KeyError")
  ELSE None

\* player.team.value if player.team else None
TeamValue(team) == IF team.t = "Team" THEN PyStr(Team[team.v]) ELSE None

\* ------------------------------------------------------------------------
\* Storage: the columns of the two models, as SQLAlchemy binds them and as
\* SQLite stores them
\* ------------------------------------------------------------------------
Ok(table) == [t |-> "ok", v |-> table]

\* id = Column(Integer, primary_key=True): an INTEGER PRIMARY KEY without
\* AUTOINCREMENT is the rowid, one more than the largest rowid in use
NextRowid(table) ==
  IF DOMAIN table = {} THEN 1
  ELSE (CHOOSE i \in DOMAIN table : \A j \in DOMAIN table : j <= i) + 1

\* Column(Boolean): the bind processor accepts only None, True and False
BooleanBind(x) ==
  IF x.t \in {"bool", "NoneType"} THEN x ELSE Raise("StatementError")

\* Column(..., nullable=False)
NotNull(x) == IF x = None THEN Raise("IntegrityError") ELSE x

\* Column(Integer) on SQLite: a text that is a well-formed integer is stored
\* as that integer, any other text is stored as it is
IntegerAffinity(x) ==
  IF x.t = "str" /\ Len(x.v) > 0 /\ DigitRun(x.v, 1) = Len(x.v)
  THEN PyInt(NumAt(x.v, 1, Len(x.v)))
  ELSE x

\* the row an Event object is written as, or the error of the flush
EventRow(obj) ==
  IF IsRaise(BooleanBind(obj.mix10)) THEN BooleanBind(obj.mix10)
  ELSE IF IsRaise(NotNull(obj.name)) THEN NotNull(obj.name)
  ELSE Ok([name |-> obj.name,
           match_time |-> obj.match_time,
           mix10 |-> BooleanBind(obj.mix10)])

\* the row a Player object is written as, or the error of the flush
PlayerRow(obj) ==
  IF IsRaise(NotNull(obj.name)) THEN NotNull(obj.name)
  ELSE IF IsRaise(NotNull(obj.event_id)) THEN NotNull(obj.event_id)
  ELSE Ok([name |-> obj.name,
           event_id |-> IntegerAffinity(obj.event_id),
           team |-> obj.team])

\* db.session.add(obj); db.session.commit()
Insert(table, row) ==
  IF IsRaise(row) THEN row
  ELSE Ok((NextRowid(table) :> row.v) @@ table)

\* obj.<column> = ...; db.session.commit()
Update(table, id, row) ==
  IF IsRaise(row) THEN row
  ELSE Ok([table EXCEPT ![id] = row.v])

\* a delete that is never committed
DeleteUncommitted(table, id) == table

\* db.session.delete(obj); db.session.commit()
Delete(table, id) == [i \in DOMAIN table \ {id} |-> table[i]]

\* a session whose changes are written although the handler raised
SessionFlushed(table, id, obj) == (id :> obj) @@ table

\* a handler that raises before, or in, db.session.commit() leaves its
\* session to be removed with the request: the changes made to the object
\* `obj` in the session are never written
SessionDiscard(table, id, obj) == table

\* a lookup that falls back to the first row when the key is unknown
QueryGetOrFirst(table, id) ==
  IF id \in DOMAIN table THEN table[id]
  ELSE IF DOMAIN table = {} THEN None
  ELSE table[CHOOSE i \in DOMAIN table : \A j \in DOMAIN table : i <= j]

\* Model.query.get(id): the row with that primary key, or None
QueryGet(table, id) == IF id \in DOMAIN table THEN table[id] ELSE None

RECURSIVE RowsUpTo(_, _)
\* the rows with an id of at most n, in id order
RowsUpTo(table, n) ==
  IF n = 0 THEN <<>>
  ELSE IF n \in DOMAIN table
  THEN Append(RowsUpTo(table, n - 1), [id |-> n, row |-> table[n]])
  ELSE RowsUpTo(table, n - 1)

\* Model.query.all(): the rows in rowid order
QueryAll(table) == RowsUpTo(table, NextRowid(table) - 1)

\* a delete that cascades to the Players of the Event
OnDeleteEventCascade(players, event_id) ==
  [p \in {q \in DOMAIN players : players[q].event_id # PyInt(event_id)} |->
     players[p]]

\* what deleting Event `event_id` does to the Player table: Event declares no
\* relationship, Player.event_id's ForeignKey no ondelete, and SQLite does
\* not enforce foreign keys unless asked to, so nothing
OnDeleteEvent(players, event_id) == players

\* ------------------------------------------------------------------------
\* Requests: the form fields and path ids the handlers are driven with
\* ------------------------------------------------------------------------
NameSamples == {<<>>, <<"A">>}

GoodTime ==
  <<"2", "0", "2", "4", "-", "0", "1", "-", "0", "1", "T",
    "1", "0", ":", "0", "0", ":", "0", "0">>

\* accepted by strptime although it is not of the form YYYY-MM-DDTHH:MM:SS
ShortTime ==
  <<"2", "0", "2", "4", "-", "2", "-", "2", "9", "T", "1", ":", "0", ":", "0">>

BadTime == <<"n", "o", "t", "-", "a", "-", "d", "a", "t", "e">>

TimeSamples == {GoodTime, ShortTime, BadTime}

Mix10Samples == {<<"f", "a", "l", "s", "e">>, <<"t", "r", "u", "e">>}

EventIdSamples == {<<"1">>, <<"x">>}

TeamSamples == {<<>>, CT, TT, <<"X", "X">>}

Field1(S) == {Missing} \cup {PyStr(x) : x \in S}

EventForms ==
  [name : Field1(NameSamples),
   match_time : Field1(TimeSamples),
   mix10 : Field1(Mix10Samples)]

PlayerForms ==
  [name : Field1(NameSamples),
   event_id : Field1(EventIdSamples),
   team : Field1(TeamSamples)]

\* fewer forms, for driving both APIs together: every field is missing or
\* holds a value its column takes, and the fields that are parsed or looked
\* up can also hold one that is rejected
FewEventForms ==
  [name : Field1({<<"A">>}),
   match_time : Field1({GoodTime, BadTime}),
   mix10 : Field1({<<"f", "a", "l", "s", "e">>})]

FewPlayerForms ==
  [name : Field1({<<"A">>}),
   event_id : Field1({<<"1">>, <<"2">>}),
   team : Field1({CT, <<"X", "X">>})]

NoForm == [t |-> "missing"]

\* the path ids requested: every id a row can have, and one that none has
EventIds == 1..(MaxEvents + 1)

PlayerIds == 1..(MaxPlayers + 1)

Request(op, id, form) == [op |-> op, id |-> id, form |-> form]

Response(status, body) == [status |-> status, body |-> body]

Message(m) == [message |-> m]

\* an exception that leaves the handler: Flask answers 500
Unhandled(e) == Response(500, [error |-> e.v])

EventJson(id, row) ==
  [id |-> PyInt(id), name |-> Json(row.name),
   match_time |-> Json(row.match_time), mix10 |-> Json(row.mix10)]

PlayerJson(id, row) ==
  [id |-> PyInt(id), name |-> Json(row.name),
   event_id |-> Json(row.event_id), team |-> TeamValue(row.team)]

Init ==
  /\ event_table = <<>>
  /\ player_table = <<>>
  /\ request = Request("none", None, NoForm)
  /\ response = Response(0, Message("none"))

\* ------------------------------------------------------------------------
\* Event API
\* ------------------------------------------------------------------------
get_all_events ==
  /\ request' = Request("get_all_events", None, NoForm)
  /\ response' =
       Response(200, [i \in 1..Len(QueryAll(event_table)) |->
                        EventJson(QueryAll(event_table)[i].id,
                                  QueryAll(event_table)[i].row)])
  /\ UNCHANGED <<event_table, player_table>>

create_event(form) ==
  LET event_name == FormGet(form, "name", None)
      match_time_string == FormGet(form, "match_time", None)
      match_time == strptime(match_time_string)
      mix10 == FormGet(form, "mix10", PyBool(FALSE))
      new_event == [name |-> event_name, match_time |-> match_time,
                    mix10 |-> mix10]
      committed == Insert(event_table, EventRow(new_event))
  IN /\ NextRowid(event_table) <= MaxEvents
     /\ request' = Request("create_event", None, form)
     /\ IF IsRaise(match_time)
        THEN /\ response' = Unhandled(match_time)
             /\ event_table' = event_table
        ELSE IF IsRaise(committed)
        THEN /\ response' = Unhandled(committed)
             /\ event_table' =
                  SessionDiscard(event_table, NextRowid(event_table), new_event)
        ELSE /\ response' = Response(201, Message("Event added successfully"))
             /\ event_table' = committed.v
     /\ UNCHANGED player_table

get_event(event_id) ==
  /\ request' = Request("get_event", PyInt(event_id), NoForm)
  /\ IF QueryGet(event_table, event_id) = None
     THEN response' = Response(404, Message("Event not found"))
     ELSE response' = Response(200, EventJson(event_id, QueryGet(event_table, event_id)))
  /\ UNCHANGED <<event_table, player_table>>

update_event(event_id, form) ==
  /\ request' = Request("update_event", PyInt(event_id), form)
  /\ IF QueryGet(event_table, event_id) = None
     THEN /\ response' = Response(404, Message("Event not found"))
          /\ event_table' = event_table
     ELSE LET event == QueryGet(event_table, event_id)
              new_name == FormGet(form, "name", None)
              new_time_string == FormGet(form, "match_time", None)
              new_time == strptime(new_time_string)
              mix10 == FormGet(form, "mix10", PyBool(FALSE))
              event1 == [event EXCEPT !.match_time = new_time]
              event2 == [event1 EXCEPT !.name = new_name]
              event3 == [event2 EXCEPT !.mix10 = mix10]
              committed == Update(event_table, event_id, EventRow(event3))
          IN IF IsRaise(new_time)
             THEN /\ response' = Unhandled(new_time)
                  /\ event_table' = event_table
             ELSE IF IsRaise(committed)
             THEN /\ response' = Unhandled(committed)
                  /\ event_table' = SessionDiscard(event_table, event_id, event3)
             ELSE /\ response' =
                       Response(200, Message("Event updated successfully"))
                  /\ event_table' = committed.v
  /\ UNCHANGED player_table

delete_event(event_id) ==
  /\ request' = Request("delete_event", PyInt(event_id), NoForm)
  /\ IF QueryGet(event_table, event_id) = None
     THEN /\ response' = Response(404, Message("Event not found"))
          /\ UNCHANGED <<event_table, player_table>>
     ELSE /\ response' = Response(200, Message("Event deleted successfully"))
          /\ event_table' = Delete(event_table, event_id)
          /\ player_table' = OnDeleteEvent(player_table, event_id)

\* ------------------------------------------------------------------------
\* Player API
\* ------------------------------------------------------------------------
get_all_players ==
  /\ request' = Request("get_all_players", None, NoForm)
  /\ response' =
       Response(200, [i \in 1..Len(QueryAll(player_table)) |->
                        PlayerJson(QueryAll(player_table)[i].id,
                                   QueryAll(player_table)[i].row)])
  /\ UNCHANGED <<event_table, player_table>>

get_player(player_id) ==
  /\ request' = Request("get_player", PyInt(player_id), NoForm)
  /\ IF QueryGet(player_table, player_id) = None
     THEN response' = Response(404, Message("Player not found"))
     ELSE response' =
            Response(200, PlayerJson(player_id, QueryGet(player_table, player_id)))
  /\ UNCHANGED <<event_table, player_table>>

create_player(form) ==
  LET player_name == FormGet(form, "name", None)
      event_id == FormGet(form, "event_id", None)
      team == FormGet(form, "team", None)
      member == TeamLookup(team)
      new_player == [name |-> player_name, event_id |-> event_id,
                     team |-> member]
      committed == Insert(player_table, PlayerRow(new_player))
  IN /\ NextRowid(player_table) <= MaxPlayers
     /\ request' = Request("create_player", None, form)
     /\ IF IsRaise(member)
        THEN /\ response' = Unhandled(member)
             /\ player_table' = player_table
        ELSE IF IsRaise(committed)
        THEN /\ response' = Unhandled(committed)
             /\ player_table' =
                  SessionDiscard(player_table, NextRowid(player_table),
                                 new_player)
        ELSE /\ response' = Response(201, Message("Player added successfully"))
             /\ player_table' = committed.v
     /\ UNCHANGED event_table

update_player(player_id, form) ==
  /\ request' = Request("update_player", PyInt(player_id), form)
  /\ IF QueryGet(player_table, player_id) = None
     THEN /\ response' = Response(404, Message("Player not found"))
          /\ player_table' = player_table
     ELSE LET player == QueryGet(player_table, player_id)
              new_name == FormGet(form, "name", None)
              new_event_id == FormGet(form, "event_id", None)
              new_team == FormGet(form, "team", None)
              player1 == [player EXCEPT !.name = new_name]
              player2 == [player1 EXCEPT !.event_id = new_event_id]
              member == TeamLookup(new_team)
              player3 == [player2 EXCEPT !.team = member]
              committed == Update(player_table, player_id, PlayerRow(player3))
          IN IF IsRaise(member)
             THEN /\ response' = Unhandled(member)
                  /\ player_table' =
                       SessionDiscard(player_table, player_id, player2)
             ELSE IF IsRaise(committed)
             THEN /\ response' = Unhandled(committed)
                  /\ player_table' =
                       SessionDiscard(player_table, player_id, player3)
             ELSE /\ response' =
                       Response(200, Message("Player updated successfully"))
                  /\ player_table' = committed.v
  /\ UNCHANGED event_table

delete_player(player_id) ==
  /\ request' = Request("delete_player", PyInt(player_id), NoForm)
  /\ IF QueryGet(player_table, player_id) = None
     THEN /\ response' = Response(404, Message("Player not found"))
          /\ player_table' = player_table
     ELSE /\ response' = Response(200, Message("Player deleted successfully"))
          /\ player_table' = Delete(player_table, player_id)
  /\ UNCHANGED event_table

\* the Event API, driven with every form
NextEvent ==
  \/ get_all_events
  \/ \E form \in EventForms : create_event(form)
  \/ \E event_id \in EventIds : get_event(event_id)
  \/ \E event_id \in EventIds, form \in EventForms : update_event(event_id, form)
  \/ \E event_id \in EventIds : delete_event(event_id)

\* the Player API, driven with every form
NextPlayer ==
  \/ get_all_players
  \/ \E player_id \in PlayerIds : get_player(player_id)
  \/ \E form \in PlayerForms : create_player(form)
  \/ \E player_id \in PlayerIds, form \in PlayerForms :
       update_player(player_id, form)
  \/ \E player_id \in PlayerIds : delete_player(player_id)

\* both APIs together, driven with the fewer forms
Next ==
  \/ get_all_events
  \/ \E form \in FewEventForms : create_event(form)
  \/ \E event_id \in EventIds : get_event(event_id)
  \/ \E event_id \in EventIds, form \in FewEventForms :
       update_event(event_id, form)
  \/ \E event_id \in EventIds : delete_event(event_id)
  \/ get_all_players
  \/ \E player_id \in PlayerIds : get_player(player_id)
  \/ \E form \in FewPlayerForms : create_player(form)
  \/ \E player_id \in PlayerIds, form \in FewPlayerForms :
       update_player(player_id, form)
  \/ \E player_id \in PlayerIds : delete_player(player_id)

Spec == Init /\ [][Next]_vars

SpecEvent == Init /\ [][NextEvent]_vars

SpecPlayer == Init /\ [][NextPlayer]_vars

\* ------------------------------------------------------------------------
\* Properties
\* ------------------------------------------------------------------------
\* the rows of `old` are all in `new`, unchanged
Kept(old, new) ==
  /\ DOMAIN old \subseteq DOMAIN new
  /\ \A i \in DOMAIN old : new[i] = old[i]

\* `new` is `old` and exactly one more row, `row`
OneMore(old, new, row) ==
  /\ Kept(old, new)
  /\ \E id \in DOMAIN new \ DOMAIN old :
       /\ DOMAIN new = DOMAIN old \cup {id}
       /\ new[id] = row

\* `new` is `old` without row `id`
OneLess(old, new, id) ==
  /\ DOMAIN new = DOMAIN old \ {id}
  /\ \A i \in DOMAIN new : new[i] = old[i]

NonEmpty(x) == x.t = "str" /\ Len(x.v) > 0

\* s is written YYYY-MM-DDTHH:MM:SS
LiteralPattern(s) ==
  /\ Len(s) = 19
  /\ \A i \in {1, 2, 3, 4, 6, 7, 9, 10, 12, 13, 15, 16, 18, 19} : s[i] \in Digits
  /\ s[5] = "-" /\ s[8] = "-" /\ s[11] = "T" /\ s[14] = ":" /\ s[17] = ":"

ValidTime(x) == x.t = "str" /\ LiteralPattern(x.v) /\ ~IsRaise(strptime(x))

InvalidTime(x) == x.t = "str" /\ ~LiteralPattern(x.v)

ValidTeam(x) == x = Missing \/ (x.t = "str" /\ x.v \in {CT, TT})

InvalidTeam(x) == NonEmpty(x) /\ x.v \notin {CT, TT}

IsInteger(x) == x.t = "str" /\ Len(x.v) > 0 /\ DigitRun(x.v, 1) = Len(x.v)

\* the explicit truthy set the mix10 field is to be coerced with
TruthySet == {<<"t", "r", "u", "e">>, <<"1">>, <<"y", "e", "s">>}

CoercedMix10(x) == PyBool(x.t = "str" /\ x.v \in TruthySet)

ValidEventPayload(form) == NonEmpty(form.name) /\ ValidTime(form.match_time)

ValidPlayerPayload(form) ==
  NonEmpty(form.name) /\ IsInteger(form.event_id) /\ ValidTeam(form.team)

EventOf(form) ==
  [name |-> form.name, match_time |-> strptime(form.match_time),
   mix10 |-> CoercedMix10(form.mix10)]

PlayerOf(form) ==
  [name |-> form.name, event_id |-> PyInt(NumAt(form.event_id.v, 1, Len(form.event_id.v))),
   team |-> IF form.team = Missing THEN None ELSE Member(form.team.v)]

Succeeded == response'.status \in {200, 201}

\* C1: a create request with a valid payload answers 201 and stores exactly
\* one new record, whose fields are the coerced input fields; a get of a
\* stored id answers 200 with the stored record (team "CT" as "CT", no team
\* as null).
C1_CreateGetRoundTrip ==
  [][/\ (request'.op = "create_event" /\ ValidEventPayload(request'.form)) =>
          /\ response'.status = 201
          /\ OneMore(event_table, event_table', EventOf(request'.form))
          /\ player_table' = player_table
     /\ (request'.op = "create_player" /\ ValidPlayerPayload(request'.form)) =>
          /\ response'.status = 201
          /\ OneMore(player_table, player_table', PlayerOf(request'.form))
          /\ event_table' = event_table
     /\ (request'.op = "get_event" /\ request'.id.v \in DOMAIN event_table) =>
          /\ response'.status = 200
          /\ response'.body.id = request'.id
          /\ response'.body.name = event_table[request'.id.v].name
          /\ response'.body.mix10 = event_table[request'.id.v].mix10
          /\ response'.body.match_time =
               http_date(event_table[request'.id.v].match_time)
     /\ (request'.op = "get_player" /\ request'.id.v \in DOMAIN player_table) =>
          /\ response'.status = 200
          /\ response'.body.id = request'.id
          /\ response'.body.name = player_table[request'.id.v].name
          /\ response'.body.event_id = player_table[request'.id.v].event_id
          /\ response'.body.team =
               IF player_table[request'.id.v].team = None THEN None
               ELSE PyStr(player_table[request'.id.v].team.v)
    ]_vars

\* C2: a delete of an id that is not stored answers 404 and changes nothing;
\* a delete of a stored id answers 200 and removes that record and nothing
\* else; an id that is not stored stays so until a create, and a get of it
\* answers 404.
C2_DeleteSemantics ==
  [][/\ (request'.op = "delete_event") =>
          IF request'.id.v \in DOMAIN event_table
          THEN /\ response'.status = 200
               /\ OneLess(event_table, event_table', request'.id.v)
          ELSE /\ response'.status = 404
               /\ UNCHANGED <<event_table, player_table>>
     /\ (request'.op = "delete_player") =>
          IF request'.id.v \in DOMAIN player_table
          THEN /\ response'.status = 200
               /\ OneLess(player_table, player_table', request'.id.v)
          ELSE /\ response'.status = 404
               /\ UNCHANGED <<event_table, player_table>>
     /\ (request'.op # "create_event") =>
          DOMAIN event_table' \subseteq DOMAIN event_table
     /\ (request'.op # "create_player") =>
          DOMAIN player_table' \subseteq DOMAIN player_table
     /\ (request'.op = "get_event" /\ request'.id.v \notin DOMAIN event_table) =>
          response'.status = 404
     /\ (request'.op = "get_player" /\ request'.id.v \notin DOMAIN player_table) =>
          response'.status = 404
    ]_vars

\* an id below the next row id that is not stored was stored and deleted: a
\* get of a deleted Event has answered 404
C2_Witness ==
  /\ request.op = "get_event"
  /\ request.id.v \notin DOMAIN event_table
  /\ request.id.v < NextRowid(event_table)
  /\ response.status = 404

\* C3: an update of an id that is not stored answers 404 whatever the form
\* holds, and no Event or Player is created or modified.
C3_UpdateMissingIs404 ==
  [][/\ (request'.op = "update_event" /\ request'.id.v \notin DOMAIN event_table) =>
          /\ response'.status = 404
          /\ UNCHANGED <<event_table, player_table>>
     /\ (request'.op = "update_player" /\ request'.id.v \notin DOMAIN player_table) =>
          /\ response'.status = 404
          /\ UNCHANGED <<event_table, player_table>>
    ]_vars

\* an update of a missing Event, sent with an unparsable match_time while
\* another Event is stored, has answered 404
C3_Witness ==
  /\ request.op = "update_event"
  /\ request.id.v \notin DOMAIN event_table
  /\ DOMAIN event_table # {}
  /\ request.form.match_time = PyStr(BadTime)
  /\ response.status = 404

\* C4: a create-player request, or an update-player request on a stored id,
\* whose team is a non-empty string outside {CT, TT} answers 400.
C4_InvalidTeamIs400 ==
  [][((\/ request'.op = "create_player"
       \/ (request'.op = "update_player" /\ request'.id.v \in DOMAIN player_table))
      /\ InvalidTeam(request'.form.team)) =>
        response'.status = 400
    ]_vars

\* C5: a create-event request, or an update-event request on a stored id,
\* whose match_time is not written YYYY-MM-DDTHH:MM:SS answers with a
\* 400-class status.
C5_InvalidTimeIs400 ==
  [][((\/ request'.op = "create_event"
       \/ (request'.op = "update_event" /\ request'.id.v \in DOMAIN event_table))
      /\ InvalidTime(request'.form.match_time)) =>
        response'.status \in 400..499
    ]_vars

\* C6: creating, or updating, an Event with mix10 = "false" stores it with
\* mix10 = false; a stored mix10 is true only for a string of the truthy
\* set, and false when the field is absent.
C6_Mix10Coercion ==
  [][/\ (request'.op = "create_event" /\ ValidEventPayload(request'.form)) =>
          /\ response'.status = 201
          /\ OneMore(event_table, event_table', EventOf(request'.form))
     /\ (/\ request'.op = "update_event"
         /\ request'.id.v \in DOMAIN event_table
         /\ ValidEventPayload(request'.form)) =>
          /\ response'.status = 200
          /\ event_table'[request'.id.v] = EventOf(request'.form)
    ]_vars

\* C7: every stored Player's team is unset, CT or TT.
C7_TeamInvariant ==
  \A id \in DOMAIN player_table :
    player_table[id].team \in {None, Member(CT), Member(TT)}

\* an update with a team outside {CT, TT} was sent for a stored Player
C7_Witness ==
  /\ request.op = "update_player"
  /\ request.id.v \in DOMAIN player_table
  /\ InvalidTeam(request.form.team)
  /\ player_table[request.id.v].team = Member(TT)

\* C8: every stored Event and every stored Player has a name that is a
\* non-empty string.
C8_NameInvariant ==
  /\ \A id \in DOMAIN event_table : NonEmpty(event_table[id].name)
  /\ \A id \in DOMAIN player_table : NonEmpty(player_table[id].name)

\* C9: a successful delete of an Event removes that Event row only and
\* leaves every Player as it was, the Players that reference the Event
\* included; a get of a stored Player answers 200 with its event_id whether
\* or not that Event is stored, and the list of Players holds every stored
\* Player.
C9_DeleteEventNoCascade ==
  [][/\ (request'.op = "delete_event" /\ response'.status = 200) =>
          /\ OneLess(event_table, event_table', request'.id.v)
          /\ player_table' = player_table
     /\ (request'.op = "get_player" /\ request'.id.v \in DOMAIN player_table) =>
          /\ response'.status = 200
          /\ response'.body.event_id = player_table[request'.id.v].event_id
     /\ (request'.op = "get_all_players") =>
          {r.id.v : r \in {response'.body[i] : i \in DOMAIN response'.body}}
            = DOMAIN player_table
    ]_vars

\* an Event was deleted that a stored Player still references
C9_Witness ==
  /\ request.op = "delete_event"
  /\ response.status = 200
  /\ request.id.v \notin DOMAIN event_table
  /\ \E p \in DOMAIN player_table : player_table[p].event_id = request.id

\* C10: a create or update request that does not answer 200 or 201 leaves
\* the stored Events and Players as they were.
C10_FailedRequestChangesNothing ==
  [][(/\ request'.op \in {"create_event", "update_event",
                          "create_player", "update_player"}
      /\ ~Succeeded) =>
        UNCHANGED <<event_table, player_table>>
    ]_vars

\* an update of a stored Player that named another event_id failed in the
\* team lookup, and the Player has the event_id it had
C10_Witness ==
  /\ request.op = "update_player"
  /\ request.id.v \in DOMAIN player_table
  /\ response.status = 500
  /\ response.body.error = "KeyError"
  /\ IsInteger(request.form.event_id)
  /\ player_table[request.id.v].event_id # IntegerAffinity(request.form.event_id)

====
